---- MODULE Spec2Model ----
(***************************************************************************)
(* Model of src/linalg.h: the two ray-intersection primitives line2seg2d   *)
(* and line2tri3d.                                                         *)
(*                                                                         *)
(* The code computes in IEEE-754 binary32 (OpenCL `float`).  A float is    *)
(* modelled as a record [nan, m, e] standing for m * 2^e, with m odd or    *)
(* m = 0 /\ e = 0 (so that equal values are equal records), and every      *)
(* arithmetic operation rounds its exact result to a 24-bit significand,   *)
(* to nearest, ties to even, each operation on its own (no contraction     *)
(* into fused multiply-add).  The exponent is unbounded: no input of the   *)
(* model comes near overflow or underflow.  +0 and -0 are one value (they  *)
(* compare equal in every test of the code).  NAN is the sentinel; an      *)
(* operation on NAN gives NAN and a comparison with NAN is false.  A       *)
(* division by zero (the code returns before it can divide by a zero       *)
(* determinant) gives NAN as well: infinities are not told apart.          *)
(***************************************************************************)
EXTENDS Integers, Sequences, FiniteSets, TLC

\* Powers of two 2^0 .. 2^30, Pow2(n) = 2^n.
Pow2Table ==
    << 1, 2, 4, 8, 16, 32, 64, 128, 256, 512, 1024, 2048, 4096, 8192, 16384,
       32768, 65536, 131072, 262144, 524288, 1048576, 2097152, 4194304,
       8388608, 16777216, 33554432, 67108864, 134217728, 268435456,
       536870912, 1073741824 >>

Pow2(n) == Pow2Table[n + 1]

Abs(x) == IF x < 0 THEN -x ELSE x

Sgn(x) == IF x < 0 THEN -1 ELSE IF x > 0 THEN 1 ELSE 0

\* Number of bits of x, 0 <= x < 2^31: the least n with x < 2^n.
BitLen(x) ==
    IF x < 32768
    THEN IF x < 128
         THEN IF x < 8
              THEN IF x < 2
                   THEN IF x < 1
                        THEN 0
                        ELSE 1
                   ELSE IF x < 4
                        THEN 2
                        ELSE 3
              ELSE IF x < 32
                   THEN IF x < 16
                        THEN 4
                        ELSE 5
                   ELSE IF x < 64
                        THEN 6
                        ELSE 7
         ELSE IF x < 2048
              THEN IF x < 512
                   THEN IF x < 256
                        THEN 8
                        ELSE 9
                   ELSE IF x < 1024
                        THEN 10
                        ELSE 11
              ELSE IF x < 8192
                   THEN IF x < 4096
                        THEN 12
                        ELSE 13
                   ELSE IF x < 16384
                        THEN 14
                        ELSE 15
    ELSE IF x < 8388608
         THEN IF x < 524288
              THEN IF x < 131072
                   THEN IF x < 65536
                        THEN 16
                        ELSE 17
                   ELSE IF x < 262144
                        THEN 18
                        ELSE 19
              ELSE IF x < 2097152
                   THEN IF x < 1048576
                        THEN 20
                        ELSE 21
                   ELSE IF x < 4194304
                        THEN 22
                        ELSE 23
         ELSE IF x < 134217728
              THEN IF x < 33554432
                   THEN IF x < 16777216
                        THEN 24
                        ELSE 25
                   ELSE IF x < 67108864
                        THEN 26
                        ELSE 27
              ELSE IF x < 536870912
                   THEN IF x < 268435456
                        THEN 28
                        ELSE 29
                   ELSE IF x < 1073741824
                        THEN 30
                        ELSE 31

\* The canonical record of m * 2^e: trailing zero bits of m moved into e.
RECURSIVE Norm(_, _)
Norm(m, e) ==
    IF m = 0 THEN [nan |-> FALSE, m |-> 0, e |-> 0]
    ELSE IF m % 2 = 0 THEN Norm(m \div 2, e + 1)
    ELSE [nan |-> FALSE, m |-> m, e |-> e]

\* The float nearest to m * 2^e (|m| < 2^31): 24 significant bits, ties to
\* even.
RoundF(m, e) ==
    LET a == Abs(m)
        n == BitLen(a)
    IN  IF n <= 24 THEN Norm(m, e)
        ELSE LET s    == n - 24
                 q    == a \div Pow2(s)
                 r    == a % Pow2(s)
                 half == Pow2(s - 1)
                 up   == r > half \/ (r = half /\ q % 2 = 1)
                 qq   == IF up THEN q + 1 ELSE q
             IN  Norm(Sgn(m) * qq, e + s)

\* The float of an integer n, |n| < 2^24 (exactly representable).
F(n) == Norm(n, 0)

NAN == [nan |-> TRUE, m |-> 0, e |-> 0]

Neg(a) == [a EXCEPT !.m = -a.m]

\* |m| * 2^(e - q) for q > e, rounded down, with the lost bits or-ed into the
\* lowest bit (sticky), so that a later rounding above that bit is exact.
ShiftSticky(m, e, q) ==
    LET s == q - e
    IN  IF s >= 31 THEN (IF m = 0 THEN 0 ELSE 1)
        ELSE LET d == m \div Pow2(s)
                 r == m % Pow2(s)
             IN  IF r = 0 THEN d
                 ELSE IF d % 2 = 0 THEN d + 1 ELSE d

\* a + b, rounded.  Both operands are brought to the quantum 2^q, 28 bits
\* below the top bit of the larger one: an operand that reaches below 2^q is
\* at least 2^3 times smaller than the other and is cut with a sticky bit.
AddF(a, b) ==
    IF a.nan \/ b.nan THEN NAN
    ELSE IF a.m = 0 THEN b
    ELSE IF b.m = 0 THEN a
    ELSE LET ta == a.e + BitLen(Abs(a.m))
             tb == b.e + BitLen(Abs(b.m))
             t  == IF ta > tb THEN ta ELSE tb
             lo == IF a.e < b.e THEN a.e ELSE b.e
             q  == IF lo > t - 28 THEN lo ELSE t - 28
             xa == IF a.e >= q THEN Abs(a.m) * Pow2(a.e - q)
                   ELSE ShiftSticky(Abs(a.m), a.e, q)
             xb == IF b.e >= q THEN Abs(b.m) * Pow2(b.e - q)
                   ELSE ShiftSticky(Abs(b.m), b.e, q)
         IN  RoundF(Sgn(a.m) * xa + Sgn(b.m) * xb, q)

SubF(a, b) == AddF(a, Neg(b))

\* a * b, rounded.  A product below 2^30 is formed exactly; a wider one is
\* formed from 12-bit halves as hi * 2^24 + low and cut to 30 bits with a
\* sticky bit before the rounding.
MulF(a, b) ==
    LET x == Abs(a.m)
        y == Abs(b.m)
        s == Sgn(a.m) * Sgn(b.m)
    IN  IF a.nan \/ b.nan THEN NAN
        ELSE IF x = 0 \/ y = 0 THEN F(0)
        ELSE IF BitLen(x) + BitLen(y) <= 30 THEN RoundF(s * x * y, a.e + b.e)
        ELSE LET x1  == x \div 4096
                 x0  == x % 4096
                 y1  == y \div 4096
                 y0  == y % 4096
                 mid == x1 * y0 + x0 * y1
                 t   == (mid % 4096) * 4096 + x0 * y0
                 low == t % 16777216
                 hi  == x1 * y1 + (mid \div 4096) + (t \div 16777216)
                 k   == 30 - BitLen(hi)
             IN  IF k >= 24 THEN RoundF(s * (hi * 16777216 + low), a.e + b.e)
                 ELSE LET w  == hi * Pow2(k) + (low \div Pow2(24 - k))
                          st == low % Pow2(24 - k) # 0
                          ws == IF st /\ w % 2 = 0 THEN w + 1 ELSE w
                      IN  RoundF(s * ws, a.e + b.e + 24 - k)

\* Long division: quotient bits of r / d (r < d) are appended to q until q
\* has 26 bits; the result is <<q, r>> with the last remainder.
RECURSIVE DivBits(_, _, _, _)
DivBits(q, r, d, n) ==
    IF q >= 33554432 THEN <<q, r, n>>
    ELSE IF 2 * r >= d THEN DivBits(2 * q + 1, 2 * r - d, d, n + 1)
    ELSE DivBits(2 * q, 2 * r, d, n + 1)

\* a / b, rounded (b # 0): at least 26 quotient bits and a sticky bit for
\* the remainder, then the rounding.  A divisor below 32 is divided into the
\* dividend shifted up to 31 bits; a wider one goes through DivBits.
DivF(a, b) ==
    IF a.nan \/ b.nan \/ b.m = 0 THEN NAN
    ELSE IF a.m = 0 THEN F(0)
    ELSE LET x == Abs(a.m)
             y == Abs(b.m)
             s == Sgn(a.m) * Sgn(b.m)
         IN  IF y < 32
             THEN LET k  == 31 - BitLen(x)
                      n  == x * Pow2(k)
                      q  == n \div y
                      qs == IF n % y # 0 /\ q % 2 = 0 THEN q + 1 ELSE q
                  IN  RoundF(s * qs, a.e - b.e - k)
             ELSE LET qr == DivBits(x \div y, x % y, y, 0)
                      q  == qr[1]
                      qs == IF qr[2] # 0 /\ q % 2 = 0 THEN q + 1 ELSE q
                  IN  RoundF(s * qs, a.e - b.e - qr[3])

\* a <= b and a == b as the code's comparisons decide them: by sign, then by
\* the top bit, then by the significands brought to one exponent.
LeF(a, b) ==
    IF a.nan \/ b.nan THEN FALSE
    ELSE IF Sgn(a.m) # Sgn(b.m) THEN a.m < b.m
    ELSE IF a.m = 0 THEN TRUE
    ELSE LET ta == a.e + BitLen(Abs(a.m))
             tb == b.e + BitLen(Abs(b.m))
             lo == IF a.e < b.e THEN a.e ELSE b.e
         IN  IF ta # tb THEN (IF a.m > 0 THEN ta < tb ELSE ta > tb)
             ELSE a.m * Pow2(a.e - lo) <= b.m * Pow2(b.e - lo)

EqF(a, b) == ~a.nan /\ ~b.nan /\ a.m = b.m /\ a.e = b.e

----------------------------------------------------------------------------
(* Small-vector arithmetic of OpenCL C on float2 / float3: component-wise  *)
(* subtraction, division by a scalar, and dot as the sum of the products   *)
(* taken in component order, each operation rounded.                       *)

VecF(v) == [i \in DOMAIN v |-> F(v[i])]

VSub(a, b) == [i \in DOMAIN a |-> SubF(a[i], b[i])]

VDiv(a, s) == [i \in DOMAIN a |-> DivF(a[i], s)]

dot(a, b) ==
    IF Len(a) = 2 THEN AddF(MulF(a[1], b[1]), MulF(a[2], b[2]))
    ELSE AddF(AddF(MulF(a[1], b[1]), MulF(a[2], b[2])), MulF(a[3], b[3]))

\* #define between(lower, x, upper) ((lower) <= (x) && (x) <= (upper))
between(lower, x, upper) == LeF(lower, x) /\ LeF(x, upper)

----------------------------------------------------------------------------
(* line2seg2d, one definition per statement of the code.                   *)

\* line 31 with p0 + p1 written for p0 - p1
seg_A1_sum(p0, p1) == [i \in DOMAIN p0 |-> AddF(p0[i], p1[i])]

seg_A1(p0, p1) == VSub(p0, p1)

seg_det(A0, A1) == SubF(MulF(A0[1], A1[2]), MulF(A0[2], A1[1]))

seg_Ai0(A1, det) == VDiv(<<A1[2], Neg(A1[1])>>, det)

seg_Ai1(A0, det) == VDiv(<<Neg(A0[2]), A0[1]>>, det)

seg_B(p0, origin) == VSub(p0, origin)

seg_res(Ai0, Ai1, B) == <<dot(Ai0, B), dot(Ai1, B)>>

\* line 43 without the test 0 <= res.x
seg_ret_unsigned(res) ==
    IF between(F(0), res[2], F(1)) THEN res[1] ELSE NAN

seg_ret(res) ==
    IF LeF(F(0), res[1]) /\ between(F(0), res[2], F(1)) THEN res[1] ELSE NAN

\* float line2seg2d(float2 origin, float2 direction, float2 p0, float2 p1)
line2seg2d(origin, direction, p0, p1) ==
    LET A0  == direction
        A1  == seg_A1(p0, p1)
        det == seg_det(A0, A1)
    IN  IF EqF(det, F(0)) THEN NAN
        ELSE LET Ai0 == seg_Ai0(A1, det)
                 Ai1 == seg_Ai1(A0, det)
                 B   == seg_B(p0, origin)
             IN  seg_ret(seg_res(Ai0, Ai1, B))

----------------------------------------------------------------------------
(* line2tri3d, one definition per statement of the code.                   *)

tri_A1(p0, p1) == VSub(p0, p1)

tri_A2(p0, p2) == VSub(p0, p2)

tri_B(p0, origin) == VSub(p0, origin)

\* a*d - b*c, the 2x2 minors the code writes out
Minor(a, d, b, c) == SubF(MulF(a, d), MulF(b, c))

tri_det(A0, A1, A2) ==
    AddF(SubF(MulF(A0[1], Minor(A1[2], A2[3], A1[3], A2[2])),
              MulF(A0[2], Minor(A1[1], A2[3], A1[3], A2[1]))),
         MulF(A0[3], Minor(A1[1], A2[2], A1[2], A2[1])))

tri_Ai0(A1, A2, det) ==
    VDiv(<< MulF(F(1),  Minor(A1[2], A2[3], A1[3], A2[2])),
            MulF(F(-1), Minor(A1[1], A2[3], A1[3], A2[1])),
            MulF(F(1),  Minor(A1[1], A2[2], A1[2], A2[1])) >>, det)

tri_Ai1(A0, A2, det) ==
    VDiv(<< MulF(F(-1), Minor(A0[2], A2[3], A0[3], A2[2])),
            MulF(F(1),  Minor(A0[1], A2[3], A0[3], A2[1])),
            MulF(F(-1), Minor(A0[1], A2[2], A0[2], A2[1])) >>, det)

tri_Ai2(A0, A1, det) ==
    VDiv(<< MulF(F(1),  Minor(A0[2], A1[3], A0[3], A1[2])),
            MulF(F(-1), Minor(A0[1], A1[3], A0[3], A1[1])),
            MulF(F(1),  Minor(A0[1], A1[2], A0[2], A1[1])) >>, det)

tri_res(Ai0, Ai1, Ai2, B) == <<dot(Ai0, B), dot(Ai1, B), dot(Ai2, B)>>

in_triangle(res) ==
    /\ between(F(0), res[2], F(1))
    /\ between(F(0), res[3], F(1))
    /\ between(F(0), AddF(res[2], res[3]), F(1))

tri_ret(res) ==
    IF LeF(F(0), res[1]) /\ in_triangle(res) THEN res[1] ELSE NAN

\* float line2tri3d(float3 origin, float3 direction, float3 p0, float3 p1,
\*                  float3 p2)
line2tri3d(origin, direction, p0, p1, p2) ==
    LET A0  == direction
        A1  == tri_A1(p0, p1)
        A2  == tri_A2(p0, p2)
        det == tri_det(A0, A1, A2)
    IN  IF EqF(det, F(0)) THEN NAN
        ELSE LET B   == tri_B(p0, origin)
                 Ai0 == tri_Ai0(A1, A2, det)
                 Ai1 == tri_Ai1(A0, A2, det)
                 Ai2 == tri_Ai2(A0, A1, det)
             IN  tri_ret(tri_res(Ai0, Ai1, Ai2, B))


----------------------------------------------------------------------------
(* The calls.  A work-item (thread, vector lane, GPU work-item) invokes    *)
(* one of the two functions on arguments passed by value.  The arguments   *)
(* of the model are integer-valued floats, kept as integers.               *)

\* Concurrent work-items of the interleaved specification.
NumItems == 2

\* direction and p0 of the 2D calls range over the square grid of
\* coordinates -MaxCoord2 .. MaxCoord2 (origin (0,0)).
MaxCoord2 == 2

\* p1 of the 3D calls ranges over the cube of coordinates 0 .. MaxCoord3
\* (p0 = (0,0,0)).
MaxCoord3 == 1

Items == 1 .. NumItems

VARIABLES
    fn,      \* fn[i]: the function work-item i invokes, "seg" or "tri"
    args,    \* args[i]: its arguments [origin, direction, p0, p1, p2]
    pc,      \* pc[i]: where the invocation stands
    segLoc,  \* segLoc[s]: the temporaries of line2seg2d held in slot s
    triLoc,  \* triLoc[s]: the temporaries of line2tri3d held in slot s
    ret      \* ret[i]: the value returned

vars == <<fn, args, pc, segLoc, triLoc, ret>>

Seg(o, d, a, b) ==
    [origin |-> o, direction |-> d, p0 |-> a, p1 |-> b, p2 |-> <<>>]

Tri(o, d, a, b, c) ==
    [origin |-> o, direction |-> d, p0 |-> a, p1 |-> b, p2 |-> c]

Grid2 == (-MaxCoord2 .. MaxCoord2) \X (-MaxCoord2 .. MaxCoord2)

Cube3 == (0 .. MaxCoord3) \X (0 .. MaxCoord3) \X (0 .. MaxCoord3)

\* the 3D directions, and the vertices p2 of the 3D calls
Dirs3 == {-1, 0, 1} \X {-1, 0, 1} \X {-1, 0, 1}

Unit3 == {0, 1} \X {0, 1} \X {0, 1}

\* p1 - p0 of the 2D calls
Extents2 == (-2 .. 2) \X (-2 .. 2)

\* The 2D cases the tests of the function name: a hit, a miss, a segment of
\* length zero.
SegTests ==
    { Seg(<<0, 0>>, <<1, 0>>, <<2, -1>>, <<2, 1>>),
      Seg(<<0, 0>>, <<1, 0>>, <<2, 1>>, <<2, 2>>),
      Seg(<<-1, 2>>, <<3, -1>>, <<5, 0>>, <<5, 0>>) }

\* 2D calls outside the grid: the tests, a ray through an endpoint of the
\* segment, a ray from an endpoint, a ray along the segment.
SegSamples ==
    SegTests \cup
    { Seg(<<0, 0>>, <<1, 2>>, <<-3, 1>>, <<1, 2>>),
      Seg(<<0, 0>>, <<1, 2>>, <<3, -1>>, <<0, 0>>),
      Seg(<<1, 1>>, <<1, 0>>, <<2, 1>>, <<3, 1>>) }

\* The 3D cases the tests of the function name: a hit, a miss, a triangle of
\* collinear points.
TriTests ==
    { Tri(<<0, 0, 0>>, <<0, 0, 1>>, <<-1, -1, 1>>, <<1, -1, 1>>, <<0, 1, 1>>),
      Tri(<<0, 0, 0>>, <<0, 0, -1>>, <<-1, -1, 1>>, <<1, -1, 1>>, <<0, 1, 1>>),
      Tri(<<0, 0, 1>>, <<0, 0, -1>>, <<0, 0, 0>>, <<1, 0, 0>>, <<2, 0, 0>>) }

\* 3D calls outside the grid: the tests, a ray in the plane of the triangle
\* that crosses it, a ray from a vertex, and a ray from p0 along the plane of
\* a triangle of large coordinates.
TriSamples ==
    TriTests \cup
    { Tri(<<-1, 1, 0>>, <<1, 0, 0>>, <<0, 0, 0>>, <<3, 0, 0>>, <<0, 3, 0>>),
      Tri(<<0, 0, 0>>, <<1, 0, 0>>, <<1, 2, 1>>, <<0, 0, 0>>, <<0, 1, 2>>),
      Tri(<<0, 0, 0>>, <<375, -450, -701>>, <<0, 0, 0>>, <<250, -193, -249>>,
          <<125, 64, 203>>) }

SegCalls ==
    { Seg(<<0, 0>>, d, a, <<a[1] + e[1], a[2] + e[2]>>) :
        d \in Grid2, a \in Grid2, e \in Extents2 }
        \cup SegSamples

TriCalls ==
    { Tri(o, d, <<0, 0, 0>>, b, c) :
        o \in {<<0, 0, 0>>, <<0, 0, -1>>}, d \in Dirs3, b \in Cube3,
        c \in Unit3 }
        \cup TriSamples

Calls == {<<"seg", a>> : a \in SegCalls} \cup {<<"tri", a>> : a \in TriCalls}

\* The calls the concurrent work-items make.
ConcCalls ==
    {<<"seg", a>> : a \in SegTests} \cup {<<"tri", a>> : a \in TriTests}

Z2 == <<F(0), F(0)>>

Z3 == <<F(0), F(0), F(0)>>

NoSegLocals ==
    [A0 |-> Z2, A1 |-> Z2, det |-> F(0), Ai0 |-> Z2, Ai1 |-> Z2, B |-> Z2,
     res |-> Z2]

NoTriLocals ==
    [A0 |-> Z3, A1 |-> Z3, A2 |-> Z3, det |-> F(0), B |-> Z3, Ai0 |-> Z3,
     Ai1 |-> Z3, Ai2 |-> Z3, res |-> Z3]

NoArgs == Tri(<<>>, <<>>, <<>>, <<>>, <<>>)

\* The function as its caller sees it: the value a call returns when it
\* runs alone.
Result(f, a) ==
    IF f = "seg"
    THEN line2seg2d(VecF(a.origin), VecF(a.direction), VecF(a.p0), VecF(a.p1))
    ELSE line2tri3d(VecF(a.origin), VecF(a.direction), VecF(a.p0), VecF(a.p1),
                    VecF(a.p2))

\* The storage of a work-item's temporaries: they are automatic variables of
\* the function body, so every invocation has a slot of its own.
SharedSlot(i) == 1

Slot(i) == i

----------------------------------------------------------------------------
(* Spec: NumItems work-items run their calls concurrently, statement       *)
(* group by statement group, in any interleaving.                          *)

Init ==
    /\ \E c \in [Items -> ConcCalls] :
          /\ fn = [i \in Items |-> c[i][1]]
          /\ args = [i \in Items |-> c[i][2]]
    /\ pc = [i \in Items |-> "ready"]
    /\ segLoc = [i \in Items |-> NoSegLocals]
    /\ triLoc = [i \in Items |-> NoTriLocals]
    /\ ret = [i \in Items |-> NAN]

\* lines 30-32: A0, A1, det
SegDet(i) ==
    /\ pc[i] = "ready"
    /\ fn[i] = "seg"
    /\ LET A0 == VecF(args[i].direction)
           A1 == seg_A1(VecF(args[i].p0), VecF(args[i].p1))
       IN  segLoc' = [segLoc EXCEPT ![Slot(i)] =
                        [@ EXCEPT !.A0 = A0, !.A1 = A1,
                                  !.det = seg_det(A0, A1)]]
    /\ pc' = [pc EXCEPT ![i] = "test"]
    /\ UNCHANGED <<fn, args, triLoc, ret>>

\* lines 33-35: if (det == 0) return NAN
SegSingular(i) ==
    /\ pc[i] = "test"
    /\ fn[i] = "seg"
    /\ IF EqF(segLoc[Slot(i)].det, F(0))
       THEN /\ ret' = [ret EXCEPT ![i] = NAN]
            /\ pc' = [pc EXCEPT ![i] = "done"]
       ELSE /\ pc' = [pc EXCEPT ![i] = "invert"]
            /\ UNCHANGED ret
    /\ UNCHANGED <<fn, args, segLoc, triLoc>>

\* lines 39-41: Ai0, Ai1, B
SegInvert(i) ==
    /\ pc[i] = "invert"
    /\ fn[i] = "seg"
    /\ LET l == segLoc[Slot(i)]
       IN  segLoc' = [segLoc EXCEPT ![Slot(i)] =
                        [@ EXCEPT !.Ai0 = seg_Ai0(l.A1, l.det),
                                  !.Ai1 = seg_Ai1(l.A0, l.det),
                                  !.B = seg_B(VecF(args[i].p0),
                                              VecF(args[i].origin))]]
    /\ pc' = [pc EXCEPT ![i] = "solve"]
    /\ UNCHANGED <<fn, args, triLoc, ret>>

\* line 42: res
SegSolve(i) ==
    /\ pc[i] = "solve"
    /\ fn[i] = "seg"
    /\ LET l == segLoc[Slot(i)]
       IN  segLoc' = [segLoc EXCEPT ![Slot(i)] =
                        [@ EXCEPT !.res = seg_res(l.Ai0, l.Ai1, l.B)]]
    /\ pc' = [pc EXCEPT ![i] = "return"]
    /\ UNCHANGED <<fn, args, triLoc, ret>>

\* line 43: return
SegReturn(i) ==
    /\ pc[i] = "return"
    /\ fn[i] = "seg"
    /\ ret' = [ret EXCEPT ![i] = seg_ret(segLoc[Slot(i)].res)]
    /\ pc' = [pc EXCEPT ![i] = "done"]
    /\ UNCHANGED <<fn, args, segLoc, triLoc>>

\* lines 72-78: A0, A1, A2, det
TriDet(i) ==
    /\ pc[i] = "ready"
    /\ fn[i] = "tri"
    /\ LET A0 == VecF(args[i].direction)
           A1 == tri_A1(VecF(args[i].p0), VecF(args[i].p1))
           A2 == tri_A2(VecF(args[i].p0), VecF(args[i].p2))
       IN  triLoc' = [triLoc EXCEPT ![Slot(i)] =
                        [@ EXCEPT !.A0 = A0, !.A1 = A1, !.A2 = A2,
                                  !.det = tri_det(A0, A1, A2)]]
    /\ pc' = [pc EXCEPT ![i] = "test"]
    /\ UNCHANGED <<fn, args, segLoc, ret>>

\* lines 80-82: if (det == 0) return NAN
TriSingular(i) ==
    /\ pc[i] = "test"
    /\ fn[i] = "tri"
    /\ IF EqF(triLoc[Slot(i)].det, F(0))
       THEN /\ ret' = [ret EXCEPT ![i] = NAN]
            /\ pc' = [pc EXCEPT ![i] = "done"]
       ELSE /\ pc' = [pc EXCEPT ![i] = "invert"]
            /\ UNCHANGED ret
    /\ UNCHANGED <<fn, args, segLoc, triLoc>>

\* lines 84-97: B, Ai0, Ai1, Ai2
TriInvert(i) ==
    /\ pc[i] = "invert"
    /\ fn[i] = "tri"
    /\ LET l == triLoc[Slot(i)]
       IN  triLoc' = [triLoc EXCEPT ![Slot(i)] =
                        [@ EXCEPT !.B = tri_B(VecF(args[i].p0),
                                              VecF(args[i].origin)),
                                  !.Ai0 = tri_Ai0(l.A1, l.A2, l.det),
                                  !.Ai1 = tri_Ai1(l.A0, l.A2, l.det),
                                  !.Ai2 = tri_Ai2(l.A0, l.A1, l.det)]]
    /\ pc' = [pc EXCEPT ![i] = "solve"]
    /\ UNCHANGED <<fn, args, segLoc, ret>>

\* line 99: res
TriSolve(i) ==
    /\ pc[i] = "solve"
    /\ fn[i] = "tri"
    /\ LET l == triLoc[Slot(i)]
       IN  triLoc' = [triLoc EXCEPT ![Slot(i)] =
                        [@ EXCEPT !.res = tri_res(l.Ai0, l.Ai1, l.Ai2, l.B)]]
    /\ pc' = [pc EXCEPT ![i] = "return"]
    /\ UNCHANGED <<fn, args, segLoc, ret>>

\* lines 100-103: in_triangle, return
TriReturn(i) ==
    /\ pc[i] = "return"
    /\ fn[i] = "tri"
    /\ ret' = [ret EXCEPT ![i] = tri_ret(triLoc[Slot(i)].res)]
    /\ pc' = [pc EXCEPT ![i] = "done"]
    /\ UNCHANGED <<fn, args, segLoc, triLoc>>

Next ==
    \E i \in Items :
        \/ SegDet(i)
        \/ SegSingular(i)
        \/ SegInvert(i)
        \/ SegSolve(i)
        \/ SegReturn(i)
        \/ TriDet(i)
        \/ TriSingular(i)
        \/ TriInvert(i)
        \/ TriSolve(i)
        \/ TriReturn(i)

Spec == Init /\ [][Next]_vars

----------------------------------------------------------------------------
(* SpecCall: one call, made by work-item 1 on any arguments of the grids;  *)
(* the other work-items are not launched.                                  *)

InitCall ==
    /\ \E c \in Calls :
          /\ fn = [i \in Items |-> IF i = 1 THEN c[1] ELSE "none"]
          /\ args = [i \in Items |-> IF i = 1 THEN c[2] ELSE NoArgs]
    /\ pc = [i \in Items |-> IF i = 1 THEN "ready" ELSE "idle"]
    /\ segLoc = [i \in Items |-> NoSegLocals]
    /\ triLoc = [i \in Items |-> NoTriLocals]
    /\ ret = [i \in Items |-> NAN]

SpecCall == InitCall /\ [][Next]_vars

----------------------------------------------------------------------------
(* Exact arithmetic on the integer arguments of a call: what the           *)
(* properties say about the real-number solution of the linear system.     *)

\* The ray parameters k = kn / kd the intersection search tries: kn in
\* 0 .. MaxK, kd in 1 .. MaxK.
MaxK == 4

Done(i) == pc[i] = "done"

Finite(x) == ~x.nan

XSub(a, b) == [j \in DOMAIN a |-> a[j] - b[j]]

XNeg(a) == [j \in DOMAIN a |-> -a[j]]

XDot(a, b) ==
    IF Len(a) = 2 THEN a[1] * b[1] + a[2] * b[2]
    ELSE a[1] * b[1] + a[2] * b[2] + a[3] * b[3]

XCross(a, b) ==
    << a[2] * b[3] - a[3] * b[2],
       a[3] * b[1] - a[1] * b[3],
       a[1] * b[2] - a[2] * b[1] >>

XDet2(a, b) == a[1] * b[2] - a[2] * b[1]

XDet3(a, b, c) == XDot(a, XCross(b, c))

IsZero(a) == \A j \in DOMAIN a : a[j] = 0

\* s*o + n*d: the point origin + (n/s)*direction, scaled by s
RayPoint(o, d, n, s) == [j \in DOMAIN o |-> s * o[j] + n * d[j]]

\* n/d lies in the closed interval [0, 1], d # 0
InUnit(n, d) == n * d >= 0 /\ Abs(n) <= Abs(d)

\* n/d is an integer, d # 0
Integral(n, d) == Abs(n) % Abs(d) = 0

\* the integer n/d, for n/d >= 0
Quotient(n, d) == Abs(n) \div Abs(d)

\* The solution (k, l) = (kn, ln) / det of
\* origin + k*direction = p0 + l*(p1 - p0), by Cramer's rule.
SegDetX(a) == XDet2(a.direction, XSub(a.p0, a.p1))

SegKn(a) == XDet2(XSub(a.p0, a.origin), XSub(a.p0, a.p1))

SegLn(a) == XDet2(a.direction, XSub(a.p0, a.origin))

SegAccepts(a) ==
    /\ SegKn(a) * SegDetX(a) >= 0
    /\ InUnit(SegLn(a), SegDetX(a))

\* The point q/s lies on the closed segment [a, b].
OnSeg(q, s, a, b) ==
    LET w0 == [j \in DOMAIN q |-> q[j] - s * a[j]]
        w1 == [j \in DOMAIN q |-> q[j] - s * b[j]]
    IN  /\ XDet2(XSub(b, a), w0) = 0
        /\ XDot(w0, w1) <= 0

\* Some origin + k*direction with k >= 0, k = kn/kd, lies on the segment.
HitSeg(a) ==
    \E kn \in 0 .. MaxK, kd \in 1 .. MaxK :
        OnSeg(RayPoint(a.origin, a.direction, kn, kd), kd, a.p0, a.p1)

\* C1: a finished line2seg2d call whose system is non-singular returns the
\* solution's k when k >= 0 and 0 <= l <= 1 (a value that is finite, not
\* negative, and equal to k when k is an integer), and the sentinel
\* otherwise.
C1_SegContract ==
    \A i \in Items :
        (Done(i) /\ fn[i] = "seg" /\ SegDetX(args[i]) # 0) =>
            IF SegAccepts(args[i])
            THEN /\ Finite(ret[i])
                 /\ ret[i].m >= 0
                 /\ (Integral(SegKn(args[i]), SegDetX(args[i]))
                        => ret[i] = F(Quotient(SegKn(args[i]),
                                               SegDetX(args[i]))))
            ELSE ret[i].nan

\* C3: a finished line2seg2d call returns NaN only if no intersection
\* exists: when some origin + k*direction, k >= 0, lies on the closed
\* segment [p0, p1], the call returns a number.
C3_SegNanOnlyIfNoHit ==
    \A i \in Items :
        (Done(i) /\ fn[i] = "seg" /\ HitSeg(args[i])) => Finite(ret[i])

TriDetX(a) == XDet3(a.direction, XSub(a.p0, a.p1), XSub(a.p0, a.p2))

TriKn(a) == XDet3(XSub(a.p0, a.origin), XSub(a.p0, a.p1), XSub(a.p0, a.p2))

TriLn(a) == XDet3(a.direction, XSub(a.p0, a.origin), XSub(a.p0, a.p2))

TriMn(a) == XDet3(a.direction, XSub(a.p0, a.p1), XSub(a.p0, a.origin))

TriAccepts(a) ==
    /\ TriKn(a) * TriDetX(a) >= 0
    /\ InUnit(TriLn(a), TriDetX(a))
    /\ InUnit(TriMn(a), TriDetX(a))
    /\ InUnit(TriLn(a) + TriMn(a), TriDetX(a))

\* the normal of the triangle's plane; zero when p0, p1, p2 are collinear
\* or two of them coincide
TriNormal(a) == XCross(XSub(a.p1, a.p0), XSub(a.p2, a.p0))

\* The point q/s is on the inner side of the edge from a to b of a triangle
\* of normal n.
InsideEdge(q, s, a, b, n) ==
    XDot(XCross(XSub(b, a), [j \in DOMAIN q |-> q[j] - s * a[j]]), n) >= 0

\* The point q/s lies in the closed triangle p0 p1 p2 (not degenerate).
InTri(q, s, a) ==
    \/ q = [j \in DOMAIN q |-> s * a.p0[j]]
    \/ LET n == TriNormal(a)
       IN  /\ XDot(n, [j \in DOMAIN q |-> q[j] - s * a.p0[j]]) = 0
           /\ InsideEdge(q, s, a.p0, a.p1, n)
           /\ InsideEdge(q, s, a.p1, a.p2, n)
           /\ InsideEdge(q, s, a.p2, a.p0, n)

\* Some origin + k*direction with k >= 0, k = kn/kd, lies in the triangle.
HitTri(a) ==
    /\ ~IsZero(TriNormal(a))
    /\ \/ InTri(a.origin, 1, a)
       \/ \E kn \in 1 .. MaxK, kd \in 1 .. MaxK :
             InTri(RayPoint(a.origin, a.direction, kn, kd), kd, a)

\* C2: a finished line2tri3d call whose system is non-singular returns the
\* solution's k when k >= 0, 0 <= l <= 1, 0 <= m <= 1 and 0 <= l+m <= 1 (a
\* value that is finite, not negative, and equal to k when k is an
\* integer), and the sentinel otherwise.
C2_TriContract ==
    \A i \in Items :
        (Done(i) /\ fn[i] = "tri" /\ TriDetX(args[i]) # 0) =>
            IF TriAccepts(args[i])
            THEN /\ Finite(ret[i])
                 /\ ret[i].m >= 0
                 /\ (Integral(TriKn(args[i]), TriDetX(args[i]))
                        => ret[i] = F(Quotient(TriKn(args[i]),
                                               TriDetX(args[i]))))
            ELSE ret[i].nan

\* C4: a finished line2tri3d call returns NaN only if no intersection
\* exists: when some origin + k*direction, k >= 0, lies in the closed
\* triangle p0 p1 p2, the call returns a number.
C4_TriNanOnlyIfNoHit ==
    \A i \in Items :
        (Done(i) /\ fn[i] = "tri" /\ HitTri(args[i])) => Finite(ret[i])

\* C6: a finished line2tri3d call on collinear or coincident vertices, or
\* on a direction parallel to the plane of the triangle (the zero direction
\* included), returns the sentinel.
C6_TriDegenerate ==
    \A i \in Items :
        (/\ Done(i)
         /\ fn[i] = "tri"
         /\ \/ IsZero(TriNormal(args[i]))
            \/ XDot(args[i].direction, TriNormal(args[i])) = 0)
            => ret[i].nan

\* C7: a finished call whose ray hits exactly an endpoint of the segment
\* (l = 0 or l = 1), exactly an edge or a vertex of the triangle (l = 0,
\* m = 0 or l + m = 1), or starts on the primitive (k = 0), returns a number
\* and not the sentinel.
C7_BoundaryInclusive ==
    \A i \in Items :
        /\ (/\ Done(i)
            /\ fn[i] = "seg"
            /\ SegDetX(args[i]) # 0
            /\ SegAccepts(args[i])
            /\ \/ SegLn(args[i]) = 0
               \/ SegLn(args[i]) = SegDetX(args[i])
               \/ SegKn(args[i]) = 0)
              => Finite(ret[i])
        /\ (/\ Done(i)
            /\ fn[i] = "tri"
            /\ TriDetX(args[i]) # 0
            /\ TriAccepts(args[i])
            /\ \/ TriLn(args[i]) = 0
               \/ TriMn(args[i]) = 0
               \/ TriLn(args[i]) + TriMn(args[i]) = TriDetX(args[i])
               \/ TriKn(args[i]) = 0)
              => Finite(ret[i])

\* the call of work-item i with the direction of the ray negated
Reversed(i) ==
    Result(fn[i], [args[i] EXCEPT !.direction = XNeg(@)])

\* C9: when a finished call returned a finite k > 0, the same call with the
\* negated direction returns the sentinel; and no finished call returned a
\* negative number.
C9_DirectionReversal ==
    \A i \in Items :
        (Done(i) /\ Finite(ret[i])) =>
            /\ ret[i].m >= 0
            /\ (ret[i].m > 0 => Reversed(i).nan)

\* a line2tri3d call has returned a finite k > 0
C9_Witness ==
    \E i \in Items :
        /\ Done(i)
        /\ fn[i] = "tri"
        /\ Finite(ret[i])
        /\ ret[i].m > 0
        /\ Reversed(i).nan

\* the call of work-item i with its vertices (p0, p1, p2) replaced by
\* (a, b, c)
Reordered(i, a, b, c) ==
    Result(fn[i], [args[i] EXCEPT !.p0 = a, !.p1 = b, !.p2 = c])

\* C10: a finished call returned the value the same call returns on every
\* other order of the vertices: (p1, p0) for line2seg2d, the five other
\* orders of (p0, p1, p2) for line2tri3d.
C10_VertexOrder ==
    \A i \in Items :
        Done(i) =>
            LET a == args[i].p0
                b == args[i].p1
                c == args[i].p2
            IN  IF fn[i] = "seg"
                THEN ret[i] = Reordered(i, b, a, c)
                ELSE /\ ret[i] = Reordered(i, a, c, b)
                     /\ ret[i] = Reordered(i, b, a, c)
                     /\ ret[i] = Reordered(i, b, c, a)
                     /\ ret[i] = Reordered(i, c, a, b)
                     /\ ret[i] = Reordered(i, c, b, a)

\* C8: under any interleaving of the steps of the concurrent calls, a
\* finished call returned the value the function returns on its arguments
\* when it runs alone; so two finished calls on the same arguments returned
\* the same value.
C8_Reentrant ==
    \A i \in Items :
        Done(i) =>
            /\ ret[i] = Result(fn[i], args[i])
            /\ \A j \in Items :
                  (Done(j) /\ fn[j] = fn[i] /\ args[j] = args[i])
                      => ret[j] = ret[i]

\* every concurrent call has returned, a line2seg2d call and a line2tri3d
\* call among them, one of them a number
C8_Witness ==
    /\ \A i \in Items : Done(i)
    /\ \E i, j \in Items : fn[i] = "seg" /\ fn[j] = "tri"
    /\ \E i \in Items : Finite(ret[i])

====
